---- MODULE Spec2Model ----
(***************************************************************************)
(* Model of src/src/App.jsx, the single-component currency converter.      *)
(*                                                                         *)
(* The seven useState cells of App are the state.  The mount effect with   *)
(* its two await points, the convert button's handler, the amount field's  *)
(* change handler and the select's change handler are the actions.  Each   *)
(* handler runs to completion before the next event is taken, as on the    *)
(* JavaScript event loop, and the component is re-rendered in between, so  *)
(* what the render shows is a function of the state (the definitions of    *)
(* the section "render").                                                  *)
(*                                                                         *)
(* Strings the code inspects character by character (the amount, currency  *)
(* codes, the converted amount) are sequences of one-character strings.    *)
(* Strings the code only stores and shows (messages, the date) are TLA+    *)
(* strings.  A cell that may hold null or undefined holds a record tagged  *)
(* with its JavaScript type.                                               *)
(*                                                                         *)
(* Numbers are exact decimals m / 10^e.  A double differs from the exact   *)
(* decimal by a relative error near 2^-53, which toFixed(2) can only see   *)
(* when the exact product lies on a rounding tie (third decimal 5, nothing *)
(* after).  The typed digits and the rates below are chosen so that no     *)
(* product is a tie (ProductsAreNoTies), so on every input of the model    *)
(* the exact decimal result is the one the double gives.                   *)
(***************************************************************************)
EXTENDS Integers, Sequences, FiniteSets, TLC

VARIABLES amount, targetCurrency, convertedAmount, rates, date, loading, error,
          pc, alerted, convertedFrom

vars == <<amount, targetCurrency, convertedAmount, rates, date, loading, error,
          pc, alerted, convertedFrom>>

\* The cells of useState, as a tuple (pc, alerted and convertedFrom are not cells).
cells == <<amount, targetCurrency, convertedAmount, rates, date, loading, error>>

---------------------------------------------------------------------------
\* Bounds

\* Longest string typed into the amount field.
MaxLen == 2

---------------------------------------------------------------------------
\* JavaScript values

Null == [type |-> "null"]
Undefined == [type |-> "undefined"]
Str(s) == [type |-> "string", val |-> s]
Obj(props) == [type |-> "object", props |-> props]

\* An Error object and a thrown value that is no Error.
ErrorObj(msg) == [isError |-> TRUE, message |-> msg]
NonError == [isError |-> FALSE, message |-> ""]

\* A number: NaN, or the exact decimal m / 10^e.
NaN == [nan |-> TRUE, m |-> 0, e |-> 0]
Num(m, e) == [nan |-> FALSE, m |-> m, e |-> e]

Pow10(n) == 10 ^ n

Digit == {"0", "1", "2", "3", "4", "5", "6", "7", "8", "9"}

DigitVal(c) ==
    CASE c = "0" -> 0 [] c = "1" -> 1 [] c = "2" -> 2 [] c = "3" -> 3
      [] c = "4" -> 4 [] c = "5" -> 5 [] c = "6" -> 6 [] c = "7" -> 7
      [] c = "8" -> 8 [] c = "9" -> 9

DigitChar(d) == <<"0", "1", "2", "3", "4", "5", "6", "7", "8", "9">>[d + 1]

LowerCase == <<"a", "b", "c", "d", "e", "f", "g", "h", "i", "j", "k", "l", "m",
               "n", "o", "p", "q", "r", "s", "t", "u", "v", "w", "x", "y", "z">>
UpperCase == <<"A", "B", "C", "D", "E", "F", "G", "H", "I", "J", "K", "L", "M",
               "N", "O", "P", "Q", "R", "S", "T", "U", "V", "W", "X", "Y", "Z">>

\* String.prototype.toUpperCase on one character and on a string.
UpperChar(c) ==
    IF \E i \in 1..Len(LowerCase) : LowerCase[i] = c
    THEN UpperCase[CHOOSE i \in 1..Len(LowerCase) : LowerCase[i] = c]
    ELSE c

toUpperCase(s) == [i \in 1..Len(s) |-> UpperChar(s[i])]

---------------------------------------------------------------------------
\* The environment: what is typed, and what the server answers.

\* Characters typed into the amount field: two digits, the decimal point, a
\* sign and a letter (which is also the exponent mark).
InputChars == {"0", "1", ".", "-", "e"}

Inputs == UNION {[1..k -> InputChars] : k \in 0..MaxLen}

eur == <<"e", "u", "r">>
gbp == <<"g", "b", "p">>

\* Rates 0.92 and 0.79: two decimals, so that a typed amount with one decimal
\* already gives a product that toFixed(2) has to round.
RateEur == Num(92, 2)
RateGbp == Num(79, 2)

\* Parsed response bodies: the mapping usd is the sequence of its properties in
\* the order JSON.parse created them, which for keys that are not array indices
\* (no currency code is) is the order of the document.
Documents ==
    { [type |-> "object", date |-> Str("2024-01-01"),
       usd |-> Obj(<<[key |-> eur, value |-> RateEur], [key |-> gbp, value |-> RateGbp]>>)],
      [type |-> "object", date |-> Str("2024-01-02"),
       usd |-> Obj(<<[key |-> gbp, value |-> RateGbp], [key |-> eur, value |-> RateEur]>>)],
      [type |-> "object", date |-> Str("2024-01-03"), usd |-> Obj(<< >>)],
      [type |-> "object", date |-> Str("2024-01-04"), usd |-> Undefined],
      [type |-> "null", date |-> Undefined, usd |-> Undefined] }

\* What fetch() and response.json() reject with.
Thrown ==
    { ErrorObj("Failed to fetch"), ErrorObj("Unexpected token < in JSON"), NonError }

---------------------------------------------------------------------------
\* Object.keys and property lookup

ObjectKeys(obj) == [i \in 1..Len(obj.props) |-> obj.props[i].key]

HasKey(obj, k) == \E i \in 1..Len(obj.props) : obj.props[i].key = k

\* obj[k] where the value is used as a number: undefined becomes NaN in the
\* product of handleConvert.
Lookup(obj, k) ==
    IF HasKey(obj, k)
    THEN obj.props[CHOOSE i \in 1..Len(obj.props) : obj.props[i].key = k].value
    ELSE NaN

---------------------------------------------------------------------------
\* Pure functions of the handlers

RECURSIVE SkipDigits(_, _)
\* \d* from position i: the first position at or after i that holds no digit.
SkipDigits(s, i) ==
    IF i <= Len(s) /\ s[i] \in Digit THEN SkipDigits(s, i + 1) ELSE i

\* Mutant of RegexTest: the character class [\d.]* in place of \d*\.?\d*.
RegexTestMultiDot(s) ==
    \A i \in 1..Len(s) : s[i] \in Digit \cup {"."}

\* /^\d*\.?\d*$/.test(s): digits, then at most one point, then digits, then
\* the end of the string.
RegexTest(s) ==
    LET i == SkipDigits(s, 1)
        j == IF i <= Len(s) /\ s[i] = "." THEN i + 1 ELSE i
        k == SkipDigits(s, j)
    IN  k = Len(s) + 1

RECURSIVE DigitsValue(_)
DigitsValue(ds) ==
    IF ds = << >> THEN 0
    ELSE 10 * DigitsValue(SubSeq(ds, 1, Len(ds) - 1)) + DigitVal(ds[Len(ds)])

\* parseFloat(s): the longest prefix that is a decimal literal (sign, digits,
\* point, digits), NaN when that prefix holds no digit.  The exponent part and
\* "Infinity" are left out: the amount never holds a letter (AmountIsFiltered).
parseFloat(s) ==
    LET signed == Len(s) >= 1 /\ s[1] \in {"-", "+"}
        b == IF signed THEN 2 ELSE 1
        i == SkipDigits(s, b)
        pt == i <= Len(s) /\ s[i] = "."
        j == IF pt THEN SkipDigits(s, i + 1) ELSE i
        int == SubSeq(s, b, i - 1)
        frac == IF pt THEN SubSeq(s, i + 1, j - 1) ELSE << >>
        mag == DigitsValue(int \o frac)
    IN  IF int = << >> /\ frac = << >> THEN NaN
        ELSE Num(IF signed /\ s[1] = "-" THEN 0 - mag ELSE mag, Len(frac))

isNaN(x) == x.nan

\* x <= 0 for a number x; false for NaN, as every comparison with NaN is.
LeqZero(x) == ~x.nan /\ x.m <= 0

\* x * y; NaN when either is NaN.
Times(x, y) ==
    IF x.nan \/ y.nan THEN NaN ELSE Num(x.m * y.m, x.e + y.e)

RECURSIVE IntToStr(_)
IntToStr(n) ==
    IF n < 10 THEN <<DigitChar(n)>>
    ELSE IntToStr(n \div 10) \o <<DigitChar(n % 10)>>

\* Mutant of Hundredths: the digits after the second decimal are cut off.
HundredthsTruncated(m, e) == (100 * m) \div Pow10(e)

\* The hundredths nearest to m / 10^e for m >= 0, the larger of two that are
\* equally near (Number.prototype.toFixed, step "pick the larger n").
Hundredths(m, e) == (200 * m + Pow10(e)) \div (2 * Pow10(e))

FixedDigits(n) ==
    IntToStr(n \div 100) \o <<".", DigitChar((n % 100) \div 10), DigitChar(n % 10)>>

\* x.toFixed(2)
toFixed2(x) ==
    IF x.nan THEN <<"N", "a", "N">>
    ELSE IF x.m < 0 THEN <<"-">> \o FixedDigits(Hundredths(0 - x.m, x.e))
    ELSE FixedDigits(Hundredths(x.m, x.e))

---------------------------------------------------------------------------
\* Render: what the component shows in a state (lines 83-176)

\* Object.keys(rates) of the render throws when rates is undefined and the
\* options are listed; React then unmounts the component and no handler runs.
Mounted == loading \/ rates.type = "object"

\* Mutant of ButtonDisabled: the button without its disabled attribute.
ButtonNeverDisabled == FALSE

SelectDisabled == loading
ButtonDisabled == loading

LoadingOption == <<"Loading currencies...">>

\* The values of the select's options, in order (the loading option has no
\* value of its own and cannot be chosen: the select is disabled).
OptionValues == IF loading \/ ~Mounted THEN << >> ELSE ObjectKeys(rates)

\* The labels of the select's options, in order.
OptionLabels ==
    IF loading THEN <<LoadingOption>>
    ELSE IF ~Mounted THEN << >>
    ELSE [i \in 1..Len(ObjectKeys(rates)) |-> toUpperCase(ObjectKeys(rates)[i])]

\* error && ..., convertedAmount && !error, date && !error
ErrorShown == error.type = "string" /\ error.val # ""
ResultShown ==
    Mounted /\ convertedAmount.type = "string" /\ convertedAmount.val # << >> /\ ~ErrorShown
DateShown == Mounted /\ date.type = "string" /\ date.val # "" /\ ~ErrorShown

\* The currency code shown next to the converted amount.
ShownCode == toUpperCase(targetCurrency)

---------------------------------------------------------------------------
\* State machine

Init ==
    /\ amount = <<"1">>
    /\ targetCurrency = << >>
    /\ convertedAmount = Null
    /\ rates = Obj(<< >>)
    /\ date = Null
    /\ loading = TRUE
    /\ error = Null
    /\ pc = "mount"
    /\ alerted = Null
    /\ convertedFrom = Null

\* Mutant of Mount: the effect without its empty dependency array, run again
\* after the render that follows the end of a fetch.
MountEveryRender ==
    /\ pc \in {"mount", "done"}
    /\ loading' = TRUE
    /\ error' = Null
    /\ pc' = "await_fetch"
    /\ alerted' = Null
    /\ UNCHANGED <<amount, targetCurrency, convertedAmount, rates, date, convertedFrom>>

\* The effect of the first render: fetchCurrencyData up to its first await.
Mount ==
    /\ pc = "mount"
    /\ loading' = TRUE
    /\ error' = Null
    /\ pc' = "await_fetch"
    /\ alerted' = Null
    /\ UNCHANGED <<amount, targetCurrency, convertedAmount, rates, date, convertedFrom>>

\* Mutant of Catch: the finally block is missing.
CatchKeepsLoading(err) ==
    /\ error' = Str(IF err.isError THEN err.message ELSE "An unknown error occurred.")
    /\ pc' = "done"
    /\ alerted' = Null
    /\ UNCHANGED <<amount, targetCurrency, convertedAmount, rates, date, loading,
                   convertedFrom>>

\* catch (err) { ... } finally { setLoading(false) }
Catch(err) ==
    /\ error' = Str(IF err.isError THEN err.message ELSE "An unknown error occurred.")
    /\ loading' = FALSE
    /\ pc' = "done"
    /\ alerted' = Null
    /\ UNCHANGED <<amount, targetCurrency, convertedAmount, rates, date, convertedFrom>>

\* await fetch(API_URL) rejects: a transport failure.
FetchRejects(err) ==
    /\ pc = "await_fetch"
    /\ Catch(err)

\* await fetch(API_URL) resolves with a response whose ok flag is given.
FetchResolves(ok) ==
    /\ pc = "await_fetch"
    /\ IF ok
       THEN /\ pc' = "await_json"
            /\ alerted' = Null
            /\ UNCHANGED <<cells, convertedFrom>>
       ELSE Catch(ErrorObj("Network response was not ok. Please try again later."))

\* await response.json() rejects: the body is no JSON.
JsonRejects(err) ==
    /\ pc = "await_json"
    /\ Catch(err)

\* Mutant of JsonResolves: the last key is the default target, not the first.
JsonResolvesLastKey(data) ==
    /\ pc = "await_json"
    /\ IF data.type = "null"
       THEN Catch(ErrorObj("Cannot read properties of null (reading 'date')"))
       ELSE /\ date' = data.date
            /\ rates' = data.usd
            /\ targetCurrency' =
                 IF data.usd.type = "object" /\ Len(ObjectKeys(data.usd)) > 0
                 THEN ObjectKeys(data.usd)[Len(ObjectKeys(data.usd))]
                 ELSE targetCurrency
            /\ loading' = FALSE
            /\ pc' = "done"
            /\ alerted' = Null
            /\ UNCHANGED <<amount, convertedAmount, error, convertedFrom>>

\* await response.json() resolves with the parsed document.
JsonResolves(data) ==
    /\ pc = "await_json"
    /\ IF data.type = "null"
       THEN Catch(ErrorObj("Cannot read properties of null (reading 'date')"))
       ELSE /\ date' = data.date
            /\ rates' = data.usd
            /\ targetCurrency' =
                 IF data.usd.type = "object" /\ Len(ObjectKeys(data.usd)) > 0
                 THEN ObjectKeys(data.usd)[1]
                 ELSE targetCurrency
            /\ loading' = FALSE
            /\ pc' = "done"
            /\ alerted' = Null
            /\ UNCHANGED <<amount, convertedAmount, error, convertedFrom>>

\* What handleConvert does once both validations have passed (lines 67-70).
ConvertStores ==
    /\ convertedAmount' =
         Str(toFixed2(Times(parseFloat(amount), Lookup(rates, targetCurrency))))
    /\ alerted' = Null
    /\ convertedFrom' = [type |-> "conversion", amount |-> amount, code |-> targetCurrency]

\* Mutant of handleConvert: the validations run before the reset, so a rejected
\* click keeps the previous result.
handleConvertKeepsResult ==
    /\ Mounted
    /\ ~ButtonDisabled
    /\ IF amount = << >> \/ isNaN(parseFloat(amount)) \/ LeqZero(parseFloat(amount))
       THEN /\ alerted' = Str("Please enter a valid positive amount.")
            /\ UNCHANGED <<convertedAmount, convertedFrom>>
       ELSE IF targetCurrency = << >>
       THEN /\ alerted' = Str("Please select a target currency.")
            /\ UNCHANGED <<convertedAmount, convertedFrom>>
       ELSE ConvertStores
    /\ UNCHANGED <<amount, targetCurrency, rates, date, loading, error, pc>>

\* Mutant of handleConvert: the click also resets the error (setError(null)).
handleConvertClearsError ==
    /\ Mounted
    /\ ~ButtonDisabled
    /\ error' = Null
    /\ IF amount = << >> \/ isNaN(parseFloat(amount)) \/ LeqZero(parseFloat(amount))
       THEN /\ convertedAmount' = Null
            /\ alerted' = Str("Please enter a valid positive amount.")
            /\ convertedFrom' = Null
       ELSE IF targetCurrency = << >>
       THEN /\ convertedAmount' = Null
            /\ alerted' = Str("Please select a target currency.")
            /\ convertedFrom' = Null
       ELSE ConvertStores
    /\ UNCHANGED <<amount, targetCurrency, rates, date, loading, pc>>

\* Mutant of handleConvert: the check of the target currency is missing.
handleConvertNoTargetCheck ==
    /\ Mounted
    /\ ~ButtonDisabled
    /\ IF amount = << >> \/ isNaN(parseFloat(amount)) \/ LeqZero(parseFloat(amount))
       THEN /\ convertedAmount' = Null
            /\ alerted' = Str("Please enter a valid positive amount.")
            /\ convertedFrom' = Null
       ELSE ConvertStores
    /\ UNCHANGED <<amount, targetCurrency, rates, date, loading, error, pc>>

\* The click handler of the convert button.
handleConvert ==
    /\ Mounted
    /\ ~ButtonDisabled
    /\ IF amount = << >> \/ isNaN(parseFloat(amount)) \/ LeqZero(parseFloat(amount))
       THEN /\ convertedAmount' = Null
            /\ alerted' = Str("Please enter a valid positive amount.")
            /\ convertedFrom' = Null
       ELSE IF targetCurrency = << >>
       THEN /\ convertedAmount' = Null
            /\ alerted' = Str("Please select a target currency.")
            /\ convertedFrom' = Null
       ELSE ConvertStores
    /\ UNCHANGED <<amount, targetCurrency, rates, date, loading, error, pc>>

\* The change handler of the amount field, for the value the field would take.
\* (A change event is fired only for a value other than the one shown.)
handleAmountChange(value) ==
    /\ Mounted
    /\ value # amount
    /\ amount' = IF RegexTest(value) THEN value ELSE amount
    /\ alerted' = Null
    /\ UNCHANGED <<targetCurrency, convertedAmount, rates, date, loading, error, pc,
                   convertedFrom>>

\* The change handler of the select: one of its options is chosen.
\* (A change event is fired only for an option other than the selected one.)
SelectCurrency(value) ==
    /\ Mounted
    /\ ~SelectDisabled
    /\ \E i \in 1..Len(OptionValues) : OptionValues[i] = value
    /\ value # targetCurrency
    /\ targetCurrency' = value
    /\ alerted' = Null
    /\ UNCHANGED <<amount, convertedAmount, rates, date, loading, error, pc, convertedFrom>>

Next ==
    \/ Mount
    \/ \E err \in Thrown : FetchRejects(err)
    \/ \E ok \in BOOLEAN : FetchResolves(ok)
    \/ \E err \in Thrown : JsonRejects(err)
    \/ \E data \in Documents : JsonResolves(data)
    \/ handleConvert
    \/ \E value \in Inputs : handleAmountChange(value)
    \/ \E value \in {eur, gbp} : SelectCurrency(value)

Spec == Init /\ [][Next]_vars

---------------------------------------------------------------------------
\* Vocabulary of the properties

FetchFailed == pc = "done" /\ error.type = "string"
FetchSucceeded == pc = "done" /\ error.type = "null"
FetchPending == pc \in {"await_fetch", "await_json"}

\* The validation of the convert action rejects the current amount and target.
ValidationFails ==
    \/ amount = << >>
    \/ parseFloat(amount).nan
    \/ parseFloat(amount).m <= 0
    \/ targetCurrency = << >>

\* Zero or more digits, optionally one decimal point, zero or more digits:
\* nothing but digits and points, and at most one point.
WellFormedAmount(s) ==
    /\ \A i \in 1..Len(s) : s[i] \in Digit \/ s[i] = "."
    /\ Cardinality({i \in 1..Len(s) : s[i] = "."}) <= 1

\* The string r writes, with exactly two decimals, a multiple of 0.01 that is
\* as near to m / 10^e as a multiple of 0.01 can be.
RoundedToTwoDecimals(r, m, e) ==
    /\ Len(r) >= 4
    /\ r[Len(r) - 2] = "."
    /\ \A i \in 1..Len(r) : i # Len(r) - 2 => r[i] \in Digit
    /\ LET n == 100 * DigitsValue(SubSeq(r, 1, Len(r) - 3))
                  + DigitsValue(SubSeq(r, Len(r) - 1, Len(r)))
           d == n * Pow10(e) - 100 * m
       IN  2 * d <= Pow10(e) /\ 0 - 2 * d <= Pow10(e)

ExpectedLabel(code) ==
    IF code = eur THEN <<"E", "U", "R">>
    ELSE IF code = gbp THEN <<"G", "B", "P">>
    ELSE code

\* The amount only ever holds what the input filter let through.
AmountIsFiltered == WellFormedAmount(amount)

\* No conversion of the model is a rounding tie, where the double and the
\* exact decimal could round apart.
ProductsAreNoTies ==
    (convertedFrom.type = "conversion" /\ HasKey(rates, convertedFrom.code)) =>
        LET a == parseFloat(convertedFrom.amount)
            r == Lookup(rates, convertedFrom.code)
        IN  2 * ((100 * a.m * r.m) % Pow10(a.e + r.e)) # Pow10(a.e + r.e)

---------------------------------------------------------------------------
\* C1 (as stated): whenever the convert action fails validation, a validation
\* notification is raised and convertedAmount is the same after the action as
\* before it, also when a previous conversion's result was present.
C1_RejectedConvertKeepsResult ==
    [][(handleConvert /\ ValidationFails) =>
          (alerted'.type = "string" /\ convertedAmount' = convertedAmount)]_vars

\* C1 (amended): whenever the convert action fails validation, a validation
\* notification is raised and convertedAmount is null after the action (a
\* previous result is cleared, not kept); no other cell changes.
C1_RejectedConvertClearsResult ==
    [][(handleConvert /\ ValidationFails) =>
          /\ alerted'.type = "string"
          /\ alerted'.val # ""
          /\ convertedAmount' = Null
          /\ UNCHANGED <<amount, targetCurrency, rates, date, loading, error>>]_vars

\* A rejected click after a successful fetch: the amount "0" with a target set.
C1_Witness ==
    /\ FetchSucceeded
    /\ alerted.type = "string"
    /\ amount = <<"0">>
    /\ targetCurrency # << >>
    /\ convertedAmount = Null

\* C2 (as stated): when the fetch has ended in failure, the error message is
\* non-empty and the currency selector is disabled.
C2_FailureKeepsSelectorDisabled ==
    FetchFailed => (error.val # "" /\ SelectDisabled)

\* C2 (amended): when the fetch ends in failure, the fetch state is failure with
\* the same non-empty message in every state from then on; selector and button
\* are enabled (loading is false), but the selector has no option and no target
\* currency is ever selected.
C2_FailureLeavesSelectorEmpty ==
    /\ [](FetchFailed =>
            /\ error.val # ""
            /\ ~loading
            /\ ~SelectDisabled
            /\ ~ButtonDisabled
            /\ OptionValues = << >>
            /\ OptionLabels = << >>
            /\ targetCurrency = << >>)
    /\ [][FetchFailed => (FetchFailed' /\ error' = error)]_vars

\* After an HTTP failure the user clicked convert and was told to pick a currency.
C2_Witness ==
    /\ FetchFailed
    /\ error.val = "Network response was not ok. Please try again later."
    /\ alerted = Str("Please select a target currency.")

\* C3: the fetch state starts in loading, leaves loading only when the fetch
\* resolves or rejects, into success (error null) or failure (error set), and
\* once it has left, nothing returns it to loading or changes the error.
C3_FetchStateIsOneWay ==
    /\ [](pc # "done" => (loading /\ error.type = "null"))
    /\ [](pc = "done" => (~loading /\ (FetchSucceeded \/ FetchFailed)))
    /\ [][(loading' # loading) => (FetchPending /\ pc' = "done")]_vars
    /\ [][pc = "done" => (pc' = "done" /\ loading' = loading /\ error' = error)]_vars

\* A failed fetch, followed by an amount edit.
C3_Witness ==
    /\ FetchFailed
    /\ amount = <<"0", ".">>
    /\ alerted = Null

\* C4: a successful fetch of a document with a date and a non-empty mapping
\* stores the date and the whole mapping, selects the first key of the mapping
\* in the document's order, and makes the selector list exactly the keys, in
\* that order, in upper case.
C4_SuccessStoresAndSelectsFirst ==
    [][\A data \in Documents :
          ( /\ JsonResolves(data)
            /\ data.type = "object"
            /\ data.date.type = "string"
            /\ data.usd.type = "object"
            /\ Len(data.usd.props) > 0 ) =>
          ( /\ date' = data.date
            /\ rates' = data.usd
            /\ targetCurrency' = data.usd.props[1].key
            /\ OptionValues' = [i \in 1..Len(data.usd.props) |-> data.usd.props[i].key]
            /\ OptionLabels' =
                 [i \in 1..Len(data.usd.props) |-> ExpectedLabel(data.usd.props[i].key)] )]_vars

\* The document whose first key is not the alphabetically first one.
C4_Witness ==
    /\ FetchSucceeded
    /\ date = Str("2024-01-02")
    /\ targetCurrency = gbp
    /\ OptionLabels = << <<"G", "B", "P">>, <<"E", "U", "R">> >>
    /\ convertedFrom = Null

\* C5: for an amount that passes validation and a selected code of the rate
\* table, the convert action sets convertedAmount to parseFloat(amount) times
\* the code's rate, rounded to two decimals; converting again with the amount
\* and the target of the conversion whose result is held gives that result.
C5_ConvertRoundsProduct ==
    [][(handleConvert /\ ~ValidationFails /\ HasKey(rates, targetCurrency)) =>
          LET a == parseFloat(amount)
              r == Lookup(rates, targetCurrency)
          IN  /\ convertedAmount'.type = "string"
              /\ RoundedToTwoDecimals(convertedAmount'.val, a.m * r.m, a.e + r.e)
              /\ ( /\ convertedAmount.type = "string"
                   /\ convertedFrom.type = "conversion"
                   /\ convertedFrom.amount = amount
                   /\ convertedFrom.code = targetCurrency )
                 => convertedAmount' = convertedAmount]_vars

\* 0.1 * 0.79 = 0.079, shown as 0.08.
C5_Witness ==
    /\ convertedFrom.type = "conversion"
    /\ convertedFrom.amount = <<".", "1">>
    /\ convertedFrom.code = gbp
    /\ convertedAmount = Str(<<"0", ".", "0", "8">>)

\* C6: the amount becomes the offered string exactly when the string is zero
\* or more digits, optionally one point, zero or more digits; when it is
\* rejected the amount keeps its value; no other cell changes in either case.
\* (Stated on the states: no change event of the amount field, whatever the
\* string offered, has an outcome other than this one.)
C6_AmountFilter ==
    \A value \in Inputs :
       ~ENABLED ( /\ handleAmountChange(value)
                  /\ ~( /\ (amount' = value) <=> WellFormedAmount(value)
                        /\ ~WellFormedAmount(value) => amount' = amount
                        /\ UNCHANGED <<targetCurrency, convertedAmount, rates, date,
                                       loading, error>> ) )

\* A lone decimal point was accepted while a result was on display.
C6_Witness ==
    /\ amount = <<".">>
    /\ convertedAmount.type = "string"
    /\ convertedFrom.amount = <<"1">>

\* C7: while loading, selector and button are disabled, the converted amount
\* is null and no target is selected; no step taken while loading changes the
\* converted amount, and only the end of the fetch ends loading.
C7_NothingBeforeFetchEnds ==
    /\ [](loading =>
            /\ SelectDisabled
            /\ ButtonDisabled
            /\ convertedAmount = Null
            /\ targetCurrency = << >>)
    /\ [][loading =>
            /\ ~ENABLED handleConvert
            /\ \A value \in {eur, gbp} : ~ENABLED SelectCurrency(value)
            /\ convertedAmount' = convertedAmount
            /\ loading' => targetCurrency' = targetCurrency
            /\ ~loading' => (FetchPending /\ pc' = "done")]_vars

\* The response has arrived, its body has not, and the user has typed.
C7_Witness ==
    /\ loading
    /\ pc = "await_json"
    /\ amount = <<"1", "1">>

\* C8 (as stated): wherever a converted amount is displayed, it is the amount
\* that was converted times the rate of the code displayed next to it, rounded
\* to two decimals.
C8_ShownCodeIsConvertedCode ==
    ResultShown =>
        \E i \in 1..Len(rates.props) :
            /\ toUpperCase(rates.props[i].key) = ShownCode
            /\ convertedAmount.val =
                 toFixed2(Times(parseFloat(convertedFrom.amount), rates.props[i].value))

\* C9: wherever convertedAmount is non-null, the fetch has succeeded (not
\* loading, error null) and the target currency is a key of the rate table.
C9_ResultOnlyAfterSuccess ==
    convertedAmount.type # "null" =>
        /\ FetchSucceeded
        /\ ~loading
        /\ rates.type = "object"
        /\ HasKey(rates, targetCurrency)

\* A result for the default target of the first document.
C9_Witness ==
    /\ convertedAmount = Str(<<"0", ".", "9", "2">>)
    /\ targetCurrency = eur
    /\ amount = <<"1">>
    /\ date = Str("2024-01-01")

\* C10: rates and date are written only by the end of the one fetch; once the
\* fetch has ended they never change and no fetch is issued again.
C10_RatesWrittenOnce ==
    /\ [][(rates' # rates \/ date' # date) => (pc = "await_json" /\ pc' = "done")]_vars
    /\ [][pc = "done" => (rates' = rates /\ date' = date /\ pc' = "done")]_vars

\* After the fetch: a conversion, then a rejected conversion.
C10_Witness ==
    /\ FetchSucceeded
    /\ rates.type = "object"
    /\ Len(rates.props) = 2
    /\ alerted = Str("Please enter a valid positive amount.")
    /\ amount = <<".">>

====
